---- MODULE Spec2Model ----
(***************************************************************************)
(* PyBot (src/main.py): the safe arithmetic evaluator safe_eval_expr, the  *)
(* dispatcher chatbot_response that calls it, and the chat loop of main    *)
(* with its history and its saves.                                         *)
(*                                                                         *)
(* A string is a sequence of one-character strings.  Numbers are exact:    *)
(* an int is [t |-> "int", n, d |-> 1], a float is the rational n/d in     *)
(* lowest terms (binary rounding is not modelled).  A value whose          *)
(* numerator or denominator leaves -MaxMag..MaxMag, an irrational or a     *)
(* complex power, is not tracked: the outcome is Untracked.                *)
(***************************************************************************)
EXTENDS Integers, Sequences, FiniteSets, TLC

VARIABLES
    user_input,   \* main: the line read by input(), stripped; a string
    expr,         \* the argument of the safe_eval_expr call under check
    outcome,      \* what that call returned or raised
    response,     \* what chatbot_response returned for user_input
    path,         \* how chatbot_response reached the evaluator: "calc", "bare", "none"
    history,      \* main: the in-memory list of entries [sender, text, reply]
    file,         \* pybot_chat_history.json: [exists, data], the list last written
    saved,        \* [called, list]: the save_history call made on leaving the loop
    pc,           \* position of the process
    quiz,         \* run_quiz: index of the question being asked, score
    exitPath,     \* [how, at]: which path left the loop, and from which position
    turns,        \* lines read so far
    evals         \* ghost: the log of the evaluations the loop's replies show

vars == <<user_input, expr, outcome, response, path, history, file, saved, pc, quiz,
          exitPath, turns, evals>>

-----------------------------------------------------------------------------
(* Bounds of the model.                                                    *)

MaxMag == 30000

-----------------------------------------------------------------------------
(* Numbers.                                                                *)

Abs(i) == IF i < 0 THEN -i ELSE i

RECURSIVE Gcd(_, _)
Gcd(a, b) == IF b = 0 THEN a ELSE Gcd(b, a % b)

IntV(i) == [t |-> "int", n |-> i, d |-> 1]
BoolV(b) == [t |-> "bool", n |-> IF b THEN 1 ELSE 0, d |-> 1]
OtherV(kind) == [t |-> kind, n |-> 0, d |-> 1]

\* a float from a fraction n/d, d # 0, in lowest terms with d > 0
FloatV(n, d) ==
    LET g == Gcd(Abs(n), Abs(d))
        s == IF d < 0 THEN -1 ELSE 1
    IN  [t |-> "float", n |-> s * (n \div g), d |-> s * (d \div g)]

\* bool is a subclass of int: arithmetic on it is int arithmetic
IsIntLike(v) == v.t \in {"int", "bool"}
InRange(v) == Abs(v.n) <= MaxMag /\ v.d <= MaxMag

Ok(v) == [k |-> "ok", v |-> v, e |-> "", m |-> ""]
Raise(e, m) == [k |-> "err", v |-> OtherV("none"), e |-> e, m |-> m]
Untracked == [k |-> "untracked", v |-> OtherV("none"), e |-> "", m |-> ""]
Checked(v) == IF InRange(v) THEN Ok(v) ELSE Untracked

\* b ** e for an int e >= 0 by repeated multiplication; -1 once it leaves the range
RECURSIVE PowNat(_, _)
PowNat(b, e) ==
    IF e = 0 THEN 1
    ELSE IF b = 0 THEN 0
    ELSE IF b = 1 THEN 1
    ELSE IF e > 31 THEN -1
    ELSE LET p == PowNat(b, e - 1)
         IN  IF p = -1 \/ p > MaxMag \div b THEN -1 ELSE p * b

Sign(b, e) == IF b < 0 /\ e % 2 = 1 THEN -1 ELSE 1

operator_add(a, b) ==
    IF IsIntLike(a) /\ IsIntLike(b) THEN Checked(IntV(a.n + b.n))
    ELSE Checked(FloatV(a.n * b.d + b.n * a.d, a.d * b.d))

operator_sub(a, b) ==
    IF IsIntLike(a) /\ IsIntLike(b) THEN Checked(IntV(a.n - b.n))
    ELSE Checked(FloatV(a.n * b.d - b.n * a.d, a.d * b.d))

operator_mul(a, b) ==
    IF IsIntLike(a) /\ IsIntLike(b) THEN Checked(IntV(a.n * b.n))
    ELSE Checked(FloatV(a.n * b.n, a.d * b.d))

\* true division that answers 0.0 for a zero divisor
TrueDivMutant(a, b) ==
    IF b.n = 0 THEN Ok(FloatV(0, 1)) ELSE Checked(FloatV(a.n * b.d, a.d * b.n))

operator_truediv(a, b) ==
    IF b.n = 0
    THEN Raise("ZeroDivisionError",
               IF IsIntLike(a) /\ IsIntLike(b) THEN "division by zero"
               ELSE "float division by zero")
    ELSE Checked(FloatV(a.n * b.d, a.d * b.n))

\* floor division: the quotient rounded toward minus infinity (\div floors)
FloorDivMutant(a, b) ==
    IF b.n = 0
    THEN Raise("ZeroDivisionError",
               IF IsIntLike(a) /\ IsIntLike(b)
               THEN "integer division or modulo by zero"
               ELSE "float floor division by zero")
    ELSE LET num == a.n * b.d
             den == a.d * b.n
             q == Sign(num * (IF den < 0 THEN -1 ELSE 1), 1) * (Abs(num) \div Abs(den))
         IN  IF IsIntLike(a) /\ IsIntLike(b) THEN Checked(IntV(q))
             ELSE Checked(FloatV(q, 1))

operator_floordiv(a, b) ==
    IF b.n = 0
    THEN Raise("ZeroDivisionError",
               IF IsIntLike(a) /\ IsIntLike(b)
               THEN "integer division or modulo by zero"
               ELSE "float floor division by zero")
    ELSE LET q == (a.n * b.d) \div (a.d * b.n)
         IN  IF IsIntLike(a) /\ IsIntLike(b) THEN Checked(IntV(q))
             ELSE Checked(FloatV(q, 1))

\* a - b * floor(a / b): the remainder has the sign of the divisor
operator_mod(a, b) ==
    IF b.n = 0
    THEN Raise("ZeroDivisionError",
               IF IsIntLike(a) /\ IsIntLike(b) THEN "integer modulo by zero"
               ELSE "float modulo")
    ELSE LET q == (a.n * b.d) \div (a.d * b.n)
         IN  IF IsIntLike(a) /\ IsIntLike(b) THEN Checked(IntV(a.n - b.n * q))
             ELSE Checked(FloatV(a.n * b.d - b.n * q * a.d, a.d * b.d))

operator_pow(a, b) ==
    IF b.d # 1 THEN Untracked                     \* irrational or complex
    ELSE IF b.n >= 0
    THEN LET pn == PowNat(Abs(a.n), b.n)
             pd == PowNat(a.d, b.n)
         IN  IF pn = -1 \/ pd = -1 THEN Untracked
             ELSE IF IsIntLike(a) /\ IsIntLike(b) THEN Checked(IntV(Sign(a.n, b.n) * pn))
             ELSE Checked(FloatV(Sign(a.n, b.n) * pn, pd))
    ELSE IF a.n = 0
    THEN Raise("ZeroDivisionError", "0.0 cannot be raised to a negative power")
    ELSE LET pn == PowNat(Abs(a.n), -b.n)
             pd == PowNat(a.d, -b.n)
         IN  IF pn = -1 \/ pd = -1 THEN Untracked
             ELSE Checked(FloatV(Sign(a.n, -b.n) * pd, pn))

operator_pos(a) == IF IsIntLike(a) THEN Ok(IntV(a.n)) ELSE Ok(a)
operator_neg(a) == IF IsIntLike(a) THEN Ok(IntV(-a.n)) ELSE Ok(FloatV(-a.n, a.d))

-----------------------------------------------------------------------------
(* The tree ast.parse returns.  Every node is a record of one shape: its   *)
(* class, its operator class (BinOp, UnaryOp), its value (Constant), its   *)
(* identifier (Name, Attribute) and its children, in evaluation order.     *)

NoValue == OtherV("none")
Node(type, op, value, id, kids) ==
    [type |-> type, op |-> op, value |-> value, id |-> id, kids |-> kids]

Constant(v) == Node("Constant", "", v, "", <<>>)
BinOp(left, op, right) == Node("BinOp", op, NoValue, "", <<left, right>>)
UnaryOp(op, operand) == Node("UnaryOp", op, NoValue, "", <<operand>>)
Name(id) == Node("Name", "", NoValue, id, <<>>)
Call(func, args) == Node("Call", "", NoValue, "", <<func>> \o args)
Attribute(value, attr) == Node("Attribute", "", NoValue, attr, <<value>>)
Compare(left, right) == Node("Compare", "Lt", NoValue, "", <<left>> \o right)
Tuple(elts) == Node("Tuple", "", NoValue, "", elts)
Starred(value) == Node("Starred", "", NoValue, "", <<value>>)
Keyword(value) == Node("keyword", "", NoValue, "", <<value>>)
Expression(body) == Node("Expression", "", NoValue, "", <<body>>)

\* the keys of the dict _ALLOWED_OPERATORS
_ALLOWED_OPERATORS ==
    {"Add", "Sub", "Mult", "Div", "Pow", "Mod", "FloorDiv", "UAdd", "USub"}

\* _ALLOWED_OPERATORS[op_type](left, right)
ApplyBinary(op, left, right) ==
    CASE op = "Add" -> operator_add(left, right)
      [] op = "Sub" -> operator_sub(left, right)
      [] op = "Mult" -> operator_mul(left, right)
      [] op = "Div" -> operator_truediv(left, right)
      [] op = "Pow" -> operator_pow(left, right)
      [] op = "Mod" -> operator_mod(left, right)
      [] op = "FloorDiv" -> operator_floordiv(left, right)
      [] OTHER -> Raise("TypeError", "operator takes one operand")

\* _ALLOWED_OPERATORS[op_type](operand)
ApplyUnary(op, operand) ==
    CASE op = "UAdd" -> operator_pos(operand)
      [] op = "USub" -> operator_neg(operand)
      [] OTHER -> Raise("TypeError", "operator takes two operands")

\* isinstance(node.value, (int, float)); bool is a subclass of int
IsIntOrFloat(v) == v.t \in {"int", "float", "bool"}

\* the inner function _eval of safe_eval_expr.  A Constant never reaches the
\* ast.Num branch: the ast.Constant branch before it returns or raises.
RECURSIVE _eval(_)
_eval(node) ==
    IF node.type = "Expression" THEN _eval(node.kids[1])
    ELSE IF node.type = "Constant"
    THEN IF IsIntOrFloat(node.value) THEN Checked(node.value)
         ELSE Raise("ValueError", "Only numeric constants are allowed")
    ELSE IF node.type = "BinOp"
    THEN IF node.op \notin _ALLOWED_OPERATORS
         THEN Raise("ValueError", "Operator " \o node.op \o " not supported")
         ELSE LET left == _eval(node.kids[1])
              IN  IF left.k # "ok" THEN left
                  ELSE LET right == _eval(node.kids[2])
                       IN  IF right.k # "ok" THEN right
                           ELSE ApplyBinary(node.op, left.v, right.v)
    ELSE IF node.type = "UnaryOp"
    THEN IF node.op \notin _ALLOWED_OPERATORS
         THEN Raise("ValueError", "Unary operator " \o node.op \o " not supported")
         ELSE LET operand == _eval(node.kids[1])
              IN  IF operand.k # "ok" THEN operand
                  ELSE ApplyUnary(node.op, operand.v)
    ELSE Raise("ValueError", "Unsupported expression type: " \o node.type)

-----------------------------------------------------------------------------
(* Characters and strings.                                                 *)

UpperCase == <<"A", "B", "C", "D", "E", "F", "G", "H", "I", "J", "K", "L", "M",
               "N", "O", "P", "Q", "R", "S", "T", "U", "V", "W", "X", "Y", "Z">>
LowerCase == <<"a", "b", "c", "d", "e", "f", "g", "h", "i", "j", "k", "l", "m",
               "n", "o", "p", "q", "r", "s", "t", "u", "v", "w", "x", "y", "z">>
DigitChars == <<"0", "1", "2", "3", "4", "5", "6", "7", "8", "9">>

Range(f) == {f[i] : i \in DOMAIN f}
IsDigit(c) == c \in Range(DigitChars)
IsLetter(c) == c \in Range(UpperCase) \cup Range(LowerCase)
IsSpace(c) == c = " "
\* \w of the re module
IsWordChar(c) == IsLetter(c) \/ IsDigit(c) \/ c = "_"
DigitVal(c) == (CHOOSE i \in DOMAIN DigitChars : DigitChars[i] = c) - 1

\* str.lower, one character
LowerChar(c) ==
    IF c \in Range(UpperCase)
    THEN LowerCase[CHOOSE i \in DOMAIN UpperCase : UpperCase[i] = c]
    ELSE c

\* str.lower
lower(s) == [i \in DOMAIN s |-> LowerChar(s[i])]

\* str.strip: leading and trailing whitespace removed
RECURSIVE lstrip(_)
lstrip(s) == IF s # <<>> /\ IsSpace(Head(s)) THEN lstrip(Tail(s)) ELSE s
RECURSIVE rstrip(_)
rstrip(s) ==
    IF s # <<>> /\ IsSpace(s[Len(s)]) THEN rstrip(SubSeq(s, 1, Len(s) - 1)) ELSE s
strip(s) == rstrip(lstrip(s))

\* the characters of s joined into one TLA+ string
RECURSIVE Join(_)
Join(s) == IF s = <<>> THEN "" ELSE Head(s) \o Join(Tail(s))

-----------------------------------------------------------------------------
(* ast.parse(expr, mode="eval"), first half: the tokens of the string.     *)

Tok(k, s, v) == [k |-> k, s |-> s, v |-> v]
EndTok == Tok("END", "", NoValue)
At(s, i) == IF i \in DOMAIN s THEN s[i] ELSE ""

\* the first index from i on that holds no digit
RECURSIVE DigitsEnd(_, _)
DigitsEnd(s, i) == IF IsDigit(At(s, i)) THEN DigitsEnd(s, i + 1) ELSE i

\* the first index from i on that holds no identifier character
RECURSIVE WordEnd(_, _)
WordEnd(s, i) == IF IsWordChar(At(s, i)) THEN WordEnd(s, i + 1) ELSE i

\* the decimal value of the digits s[i..j-1], and 10 ** k
RECURSIVE DecVal(_, _, _)
DecVal(s, i, j) == IF j <= i THEN 0 ELSE 10 * DecVal(s, i, j - 1) + DigitVal(s[j - 1])
RECURSIVE Pow10(_)
Pow10(k) == IF k <= 0 THEN 1 ELSE 10 * Pow10(k - 1)

\* the index of the quote closing a one-quote string opened before i; 0 if none
RECURSIVE QuoteEnd(_, _)
QuoteEnd(s, i) ==
    IF i > Len(s) THEN 0 ELSE IF s[i] = "'" THEN i ELSE QuoteEnd(s, i + 1)

\* the index of the last of the three quotes closing a triple-quoted string
\* opened before i; 0 if none
RECURSIVE TripleEnd(_, _)
TripleEnd(s, i) ==
    IF i + 2 > Len(s) THEN 0
    ELSE IF s[i] = "'" /\ s[i + 1] = "'" /\ s[i + 2] = "'" THEN i + 2
    ELSE TripleEnd(s, i + 1)

\* a number starting at i (a digit, or a point followed by a digit):
\* [ok, tok, next]
NumberAt(s, i) ==
    LET i1 == DigitsEnd(s, i)
        point == At(s, i1) = "."
        f0 == IF point THEN i1 + 1 ELSE i1
        f1 == IF point THEN DigitsEnd(s, f0) ELSE i1
        imag == At(s, f1) = "j" \/ At(s, f1) = "J"
        end == IF imag THEN f1 + 1 ELSE f1
        whole == DecVal(s, i, i1)
        leadingZeros == ~point /\ ~imag /\ i1 - i > 1 /\ s[i] = "0" /\ whole # 0
        value == IF imag THEN OtherV("complex")
                 ELSE IF point
                 THEN FloatV(whole * Pow10(f1 - f0) + DecVal(s, f0, f1), Pow10(f1 - f0))
                 ELSE IntV(whole)
    IN  IF leadingZeros \/ IsWordChar(At(s, end))
        THEN [ok |-> FALSE, tok |-> EndTok, next |-> end]
        ELSE [ok |-> TRUE, tok |-> Tok("NUMBER", "", value), next |-> end]

\* a string literal whose opening quote is at i: [ok, tok, next]
StringAt(s, i) ==
    LET triple == At(s, i + 1) = "'" /\ At(s, i + 2) = "'"
        close == IF triple THEN TripleEnd(s, i + 3) ELSE QuoteEnd(s, i + 1)
    IN  IF close = 0 THEN [ok |-> FALSE, tok |-> EndTok, next |-> i]
        ELSE [ok |-> TRUE, tok |-> Tok("STRING", "", OtherV("str")), next |-> close + 1]

TwoCharOps == {<<"*", "*">>, <<"/", "/">>, <<"<", "<">>}
OneCharOps == {"+", "-", "*", "/", "%", "(", ")", "^", "<", "~", ".", ";", ":"}

\* the tokens of s from index i on: [ok, toks]
RECURSIVE Tokenize(_, _)
Tokenize(s, i) ==
    IF i > Len(s) THEN [ok |-> TRUE, toks |-> <<>>]
    ELSE LET c == s[i]
             one(tok, next) ==
                 LET rest == Tokenize(s, next)
                 IN  IF rest.ok THEN [ok |-> TRUE, toks |-> <<tok>> \o rest.toks]
                     ELSE rest
             bad == [ok |-> FALSE, toks |-> <<>>]
         IN  IF IsSpace(c) THEN Tokenize(s, i + 1)
             ELSE IF IsDigit(c) \/ (c = "." /\ IsDigit(At(s, i + 1)))
             THEN LET n == NumberAt(s, i) IN IF n.ok THEN one(n.tok, n.next) ELSE bad
             ELSE IF IsLetter(c) \/ c = "_"
             THEN LET j == WordEnd(s, i)
                  IN  IF At(s, j) = "'" THEN bad     \* no string prefix is modelled
                      ELSE one(Tok("NAME", Join(SubSeq(s, i, j - 1)), NoValue), j)
             ELSE IF c = "'"
             THEN LET q == StringAt(s, i) IN IF q.ok THEN one(q.tok, q.next) ELSE bad
             ELSE IF c = "." /\ At(s, i + 1) = "." /\ At(s, i + 2) = "."
             THEN one(Tok("ELLIPSIS", "", OtherV("ellipsis")), i + 3)
             ELSE IF <<c, At(s, i + 1)>> \in TwoCharOps
             THEN one(Tok("OP", c \o c, NoValue), i + 2)
             ELSE IF c \in OneCharOps THEN one(Tok("OP", c, NoValue), i + 1)
             ELSE bad

-----------------------------------------------------------------------------
(* ast.parse(expr, mode="eval"), second half: the expression grammar of    *)
(* Python over these tokens, from the loosest binding to the tightest:     *)
(*   comparison < , bitwise ^ , shift << , sum + - , term * / // % ,       *)
(*   factor (unary + - ~) , power ** , primary (call, attribute) , atom.   *)
(* A parse result is [ok, node, pos]: pos is the index of the next token.  *)

TokAt(toks, i) == IF i \in DOMAIN toks THEN toks[i] ELSE EndTok
IsOp(tok, syms) == tok.k = "OP" /\ tok.s \in syms
Parsed(node, pos) == [ok |-> TRUE, node |-> node, pos |-> pos]
NoParse == [ok |-> FALSE, node |-> Name(""), pos |-> 0]

BinOpClass(sym) ==
    CASE sym = "+" -> "Add" [] sym = "-" -> "Sub" [] sym = "*" -> "Mult"
      [] sym = "/" -> "Div" [] sym = "//" -> "FloorDiv" [] sym = "%" -> "Mod"
      [] sym = "**" -> "Pow" [] sym = "^" -> "BitXor" [] sym = "<<" -> "LShift"
UnaryOpClass(sym) ==
    CASE sym = "+" -> "UAdd" [] sym = "-" -> "USub" [] sym = "~" -> "Invert"

\* the first index from i on that holds no STRING token
RECURSIVE StringsEnd(_, _)
StringsEnd(toks, i) ==
    IF TokAt(toks, i).k = "STRING" THEN StringsEnd(toks, i + 1) ELSE i

RECURSIVE ParseExpression(_, _)
RECURSIVE ParseCompareRest(_, _, _)
RECURSIVE ParseLeftAssoc(_, _, _)
RECURSIVE ParseLeftAssocRest(_, _, _, _)
RECURSIVE ParseFactor(_, _)
RECURSIVE ParsePower(_, _)
RECURSIVE ParseTrailers(_, _, _)
RECURSIVE ParseAtom(_, _)

\* atom: NAME | True | False | None | NUMBER | STRING+ | ... | ( ) | ( expression )
ParseAtom(toks, i) ==
    LET tok == TokAt(toks, i)
        closed(e) == IF e.ok /\ IsOp(TokAt(toks, e.pos), {")"})
                     THEN Parsed(e.node, e.pos + 1)
                     ELSE NoParse
    IN  IF tok.k = "NUMBER" THEN Parsed(Constant(tok.v), i + 1)
        ELSE IF tok.k = "STRING" THEN Parsed(Constant(tok.v), StringsEnd(toks, i))
        ELSE IF tok.k = "ELLIPSIS" THEN Parsed(Constant(tok.v), i + 1)
        ELSE IF tok.k = "NAME"
        THEN IF tok.s = "True" THEN Parsed(Constant(BoolV(TRUE)), i + 1)
             ELSE IF tok.s = "False" THEN Parsed(Constant(BoolV(FALSE)), i + 1)
             ELSE IF tok.s = "None" THEN Parsed(Constant(OtherV("NoneType")), i + 1)
             ELSE Parsed(Name(tok.s), i + 1)
        ELSE IF IsOp(tok, {"("})
        THEN IF IsOp(TokAt(toks, i + 1), {")"}) THEN Parsed(Tuple(<<>>), i + 2)
             ELSE closed(ParseExpression(toks, i + 1))
        ELSE NoParse

\* the trailers of a primary: any number of .NAME and ( [argument] )
ParseTrailers(toks, node, i) ==
    LET tok == TokAt(toks, i)
        t1 == TokAt(toks, i + 1)
        star == IsOp(t1, {"*", "**"})
        argument(e) == IF ~star THEN e.node
                       ELSE IF t1.s = "*" THEN Starred(e.node)
                       ELSE Keyword(e.node)
        called(e) == IF e.ok /\ IsOp(TokAt(toks, e.pos), {")"})
                     THEN ParseTrailers(toks, Call(node, <<argument(e)>>), e.pos + 1)
                     ELSE NoParse
    IN  IF IsOp(tok, {"."})
        THEN IF t1.k = "NAME" /\ t1.s \notin {"True", "False", "None"}
             THEN ParseTrailers(toks, Attribute(node, t1.s), i + 2)
             ELSE NoParse
        ELSE IF IsOp(tok, {"("})
        THEN IF IsOp(t1, {")"}) THEN ParseTrailers(toks, Call(node, <<>>), i + 2)
             ELSE called(ParseExpression(toks, IF star THEN i + 2 ELSE i + 1))
        ELSE Parsed(node, i)

\* primary: atom trailer*
ParsePrimary(toks, i) ==
    LET trailers(a) == IF a.ok THEN ParseTrailers(toks, a.node, a.pos) ELSE NoParse
    IN  trailers(ParseAtom(toks, i))

\* the result of parsing  sign operand  and of parsing  base ** exponent
SignedNode(sym, u) ==
    IF u.ok THEN Parsed(UnaryOp(UnaryOpClass(sym), u.node), u.pos) ELSE NoParse
PowerNode(base, f) ==
    IF f.ok THEN Parsed(BinOp(base.node, "Pow", f.node), f.pos) ELSE NoParse

\* a factor whose sign binds tighter than '**': (sign)* primary ['**' factor]
RECURSIVE ParseSigned(_, _)
ParseSigned(toks, i) ==
    IF IsOp(TokAt(toks, i), {"+", "-", "~"})
    THEN SignedNode(TokAt(toks, i).s, ParseSigned(toks, i + 1))
    ELSE ParsePrimary(toks, i)
ParseFactorMutant(toks, i) ==
    LET power(u) == IF u.ok /\ IsOp(TokAt(toks, u.pos), {"**"})
                    THEN PowerNode(u, ParseFactor(toks, u.pos + 1))
                    ELSE u
    IN  power(ParseSigned(toks, i))

\* power: primary ['**' factor]
ParsePower(toks, i) ==
    LET power(p) == IF p.ok /\ IsOp(TokAt(toks, p.pos), {"**"})
                    THEN PowerNode(p, ParseFactor(toks, p.pos + 1))
                    ELSE p
    IN  power(ParsePrimary(toks, i))

\* factor: ('+' | '-' | '~') factor | power
ParseFactor(toks, i) ==
    IF IsOp(TokAt(toks, i), {"+", "-", "~"})
    THEN SignedNode(TokAt(toks, i).s, ParseFactor(toks, i + 1))
    ELSE ParsePower(toks, i)

\* the operators of each left-associative level, loosest first; the last
\* level is the term, whose operands are factors
LevelOps ==
    <<{"^"}, {"<<"}, {"+", "-"}, {"*", "/", "//", "%"}>>

\* level: operand (op operand)*, where an operand is the next tighter level
ParseLeftAssoc(toks, level, i) ==
    LET rest(first) == IF first.ok
                       THEN ParseLeftAssocRest(toks, level, first.node, first.pos)
                       ELSE NoParse
    IN  rest(IF level = Len(LevelOps) THEN ParseFactor(toks, i)
             ELSE ParseLeftAssoc(toks, level + 1, i))

ParseLeftAssocRest(toks, level, left, i) ==
    LET tok == TokAt(toks, i)
        more(right) == IF right.ok
                       THEN ParseLeftAssocRest(toks, level,
                                               BinOp(left, BinOpClass(tok.s), right.node),
                                               right.pos)
                       ELSE NoParse
    IN  IF IsOp(tok, LevelOps[level])
        THEN more(IF level = Len(LevelOps) THEN ParseFactor(toks, i + 1)
                  ELSE ParseLeftAssoc(toks, level + 1, i + 1))
        ELSE Parsed(left, i)

\* comparison: bitwise ('<' bitwise)*, one Compare node for the whole chain
ParseCompareRest(toks, rights, i) ==
    LET more(r) == IF r.ok THEN ParseCompareRest(toks, rights \o <<r.node>>, r.pos)
                   ELSE [ok |-> FALSE, nodes |-> <<>>, pos |-> 0]
    IN  IF IsOp(TokAt(toks, i), {"<"})
        THEN more(ParseLeftAssoc(toks, 1, i + 1))
        ELSE [ok |-> TRUE, nodes |-> rights, pos |-> i]

ParseExpression(toks, i) ==
    LET compare(left, rest) ==
            IF ~rest.ok THEN NoParse
            ELSE IF rest.nodes = <<>> THEN Parsed(left.node, rest.pos)
            ELSE Parsed(Compare(left.node, rest.nodes), rest.pos)
        chain(left) == IF left.ok
                       THEN compare(left, ParseCompareRest(toks, <<>>, left.pos))
                       ELSE NoParse
    IN  chain(ParseLeftAssoc(toks, 1, i))

\* ast.parse(expr, mode="eval"): [ok, node]; ~ok is a SyntaxError
ast_parse(s) ==
    LET whole(t, e) == IF e.ok /\ e.pos = Len(t.toks) + 1
                       THEN [ok |-> TRUE, node |-> Expression(e.node)]
                       ELSE [ok |-> FALSE, node |-> Name("")]
        tokens(t) == IF t.ok THEN whole(t, ParseExpression(t.toks, 1))
                     ELSE [ok |-> FALSE, node |-> Name("")]
    IN  tokens(Tokenize(s, 1))

\* the body of safe_eval_expr after the test for an empty expression
EvalStripped(e) ==
    LET evaluated(tree) ==
            IF ~tree.ok THEN Raise("ValueError", "Invalid expression: SyntaxError")
            ELSE _eval(tree.node)
    IN  evaluated(ast_parse(e))

\* safe_eval_expr without the test for an empty expression
SafeEvalNoEmptyTest(s) == EvalStripped(strip(s))

\* safe_eval_expr(expr)
safe_eval_expr(s) ==
    LET nonempty(e) == IF e = <<>> THEN Raise("ValueError", "Empty expression")
                       ELSE EvalStripped(e)
    IN  nonempty(strip(s))

-----------------------------------------------------------------------------
(* chatbot_response: the keyword rules in the order of the code.           *)

GreetingWords ==
    {<<"h", "i">>,
     <<"h", "e", "l", "l", "o">>,
     <<"h", "e", "y">>,
     <<"h", "i", "y", "a">>,
     <<"s", "u", "p">>}
FarewellWords ==
    {<<"b", "y", "e">>,
     <<"g", "o", "o", "d", "b", "y", "e">>,
     <<"s", "e", "e", " ", "y", "a">>,
     <<"s", "e", "e", " ", "y", "o", "u">>,
     <<"l", "a", "t", "e", "r">>}
ThanksWords ==
    {<<"t", "h", "a", "n", "k", "s">>,
     <<"t", "h", "a", "n", "k", " ", "y", "o", "u">>,
     <<"t", "h", "x">>}
HowAreYouWords ==
    {<<"h", "o", "w", " ", "a", "r", "e", " ", "y", "o", "u">>}
NameWords ==
    {<<"y", "o", "u", "r", " ", "n", "a", "m", "e">>,
     <<"w", "h", "o", " ", "a", "r", "e", " ", "y", "o", "u">>}
TimeWords ==
    {<<"t", "i", "m", "e">>,
     <<"c", "u", "r", "r", "e", "n", "t", " ", "t", "i", "m", "e">>,
     <<"w", "h", "a", "t", " ", "t", "i", "m", "e">>}
DateWords ==
    {<<"d", "a", "t", "e">>,
     <<"t", "o", "d", "a", "y", "'", "s", " ", "d", "a", "t", "e">>,
     <<"w", "h", "a", "t", " ", "d", "a", "t", "e">>}
SadWords ==
    {<<"s", "a", "d">>,
     <<"d", "o", "w", "n">>,
     <<"u", "n", "h", "a", "p", "p", "y">>,
     <<"d", "e", "p", "r", "e", "s", "s", "e", "d">>}
HappyWords ==
    {<<"h", "a", "p", "p", "y">>,
     <<"g", "r", "e", "a", "t">>,
     <<"a", "w", "e", "s", "o", "m", "e">>,
     <<"g", "o", "o", "d">>,
     <<"f", "a", "n", "t", "a", "s", "t", "i", "c">>}
JokeWord == <<"j", "o", "k", "e">>
FactWord == <<"f", "a", "c", "t">>
RandomFactWord == <<"r", "a", "n", "d", "o", "m", " ", "f", "a", "c", "t">>
QuizWord == <<"q", "u", "i", "z">>
CalcWord == <<"c", "a", "l", "c">>
FaqKeys ==
    <<<<"w", "h", "a", "t", " ", "c", "a", "n", " ", "y", "o", "u", " ", "d", "o">>,
      <<"h", "o", "w", " ", "t", "o", " ", "e", "x", "i", "t">>,
      <<"h", "o", "w", " ", "t", "o", " ", "s", "a", "v", "e">>>>

\* s[i..] starts with w
StartsAt(s, i, w) ==
    i + Len(w) - 1 <= Len(s) /\ \A k \in 1..Len(w) : s[i + k - 1] = w[k]

\* w in s
Contains(s, w) == \E i \in 1..Len(s) : StartsAt(s, i, w)

\* re.search(r"\b(w1|w2|...)\b", s): some word occurs between word boundaries
SearchWords(s, words) ==
    \E w \in words : \E i \in 1..Len(s) :
        /\ StartsAt(s, i, w)
        /\ ~IsWordChar(At(s, i - 1))
        /\ ~IsWordChar(At(s, i + Len(w)))

\* the first index from i on that holds neither ':' nor ' '
RECURSIVE SepEnd(_, _)
SepEnd(s, i) == IF At(s, i) \in {":", " "} THEN SepEnd(s, i + 1) ELSE i

\* re.match(r"^calc[: ]+(.+)", s): [ok, group1].  [: ]+ is greedy and gives back
\* its last character when nothing else is left for (.+)
calc_match(s) ==
    LET j == SepEnd(s, 5)
    IN  IF ~StartsAt(s, 1, CalcWord) \/ j = 5 THEN [ok |-> FALSE, group1 |-> <<>>]
        ELSE IF j <= Len(s) THEN [ok |-> TRUE, group1 |-> SubSeq(s, j, Len(s))]
        ELSE IF j - 5 >= 2 THEN [ok |-> TRUE, group1 |-> SubSeq(s, j - 1, Len(s))]
        ELSE [ok |-> FALSE, group1 |-> <<>>]

\* s.replace("^", "**")
RECURSIVE replace_caret(_)
replace_caret(s) ==
    IF s = <<>> THEN <<>>
    ELSE (IF Head(s) = "^" THEN <<"*", "*">> ELSE <<Head(s)>>) \o replace_caret(Tail(s))

\* re.fullmatch(r"[0-9\s\.\+\-\*\/\%\(\)\^//]+", s)
ExprClass == {".", "+", "-", "*", "/", "%", "(", ")", "^"}
expr_fullmatch(s) ==
    s # <<>> /\ \A i \in 1..Len(s) : IsDigit(s[i]) \/ IsSpace(s[i]) \/ s[i] \in ExprClass

\* a reply: the rule that answered, its argument (the alternative random.choice
\* drew, a count; 0 when the text has none), and for the calculator the outcome
\* it formats
NoOutcome == Raise("", "")
Reply(kind, arg) == [kind |-> kind, arg |-> arg, out |-> NoOutcome]

\* f"Result: {result}" and f"Calculator error: {e}"
CalcReply(out) ==
    [kind |-> CASE out.k = "ok" -> "Result: "
                [] out.k = "err" -> "Calculator error: "
                [] OTHER -> "untracked",
     arg |-> 0, out |-> out]

\* the keyword rules before the calculator; "" when none answers
RulesBefore(low) ==
    IF StartsAt(low, 1, <<"/">>) THEN "slash"
    ELSE IF SearchWords(low, GreetingWords) THEN "greeting"
    ELSE IF SearchWords(low, FarewellWords) THEN "farewell"
    ELSE IF SearchWords(low, ThanksWords) THEN "thanks"
    ELSE IF SearchWords(low, HowAreYouWords) THEN "how are you"
    ELSE IF SearchWords(low, NameWords) THEN "name"
    ELSE IF SearchWords(low, TimeWords) THEN "time"
    ELSE IF SearchWords(low, DateWords) THEN "date"
    ELSE IF Contains(low, JokeWord) THEN "joke"
    ELSE IF Contains(low, FactWord) \/ Contains(low, RandomFactWord) THEN "fact"
    ELSE ""

\* the rules after the calculator
RulesAfter(low) ==
    IF SearchWords(low, SadWords) THEN "sad"
    ELSE IF SearchWords(low, HappyWords) THEN "happy"
    ELSE IF \E i \in DOMAIN FaqKeys : Contains(low, FaqKeys[i]) THEN "faq"
    ELSE IF Contains(low, QuizWord) THEN "quiz"
    ELSE "fallback"

RandomKinds == {"greeting", "farewell", "thanks", "joke", "fact", "fallback"}
Choices == 1..3
Drawn(kind, choice) == Reply(kind, IF kind \in RandomKinds THEN choice ELSE 0)

\* the expression chatbot_response hands to safe_eval_expr, and by which rule
Handed(input) ==
    LET low == lower(strip(input))
        math_match == calc_match(low)
        bare == replace_caret(low)
    IN  IF RulesBefore(low) # "" THEN [path |-> "none", expr |-> <<>>]
        ELSE IF math_match.ok THEN [path |-> "calc", expr |-> math_match.group1]
        ELSE IF expr_fullmatch(bare) THEN [path |-> "bare", expr |-> bare]
        ELSE [path |-> "none", expr |-> <<>>]

\* chatbot_response(user_input), with the alternative random.choice draws
chatbot_response(input, choice) ==
    LET text == strip(input)
        low == lower(text)
        before == RulesBefore(low)
        math_match == calc_match(low)
        bare == replace_caret(low)
        result == safe_eval_expr(bare)
    IN  IF before # "" THEN Drawn(before, choice)
        ELSE IF math_match.ok THEN CalcReply(safe_eval_expr(math_match.group1))
        ELSE IF expr_fullmatch(bare) /\ result.k # "err" THEN CalcReply(result)
        ELSE Drawn(RulesAfter(low), choice)

-----------------------------------------------------------------------------
(* Inputs.  A line is typed as a sequence of keys; a key is one character  *)
(* or one of the words below, typed as its characters.                     *)

MaxDenyKeys == 3
MaxArithKeys == 3
MaxChainOps == 2
MaxFloor == 9

KeyChars(k) ==
    CASE k = "**" -> <<"*", "*">>
      [] k = "//" -> <<"/", "/">>
      [] k = "True" -> <<"T", "r", "u", "e">>
      [] k = "None" -> <<"N", "o", "n", "e">>
      [] k = "calc " -> <<"c", "a", "l", "c", " ">>
      [] k = "bye" -> <<"b", "y", "e">>
      [] OTHER -> <<k>>

RECURSIVE Typed(_)
Typed(keys) == IF keys = <<>> THEN <<>> ELSE KeyChars(Head(keys)) \o Typed(Tail(keys))

KeySeqs(keys, n) == UNION {[1..m -> keys] : m \in 0..n}
Lines(keys, n) == {Typed(ks) : ks \in KeySeqs(keys, n)}

ArithKeys == {"0", "2", "+", "-", "*", "/", "//", "%", "**", "(", ")"}
DenyKeys == {"1", "+", "-", "(", ")", " ", "a", "j", "True", "None", "'", ".",
             "^", "<", "~", ";"}

-----------------------------------------------------------------------------
(* A call of safe_eval_expr.                                               *)

Idle ==
    /\ user_input = <<>>
    /\ response = Reply("", 0)
    /\ path = "none"
    /\ history = <<>>
    /\ file = [exists |-> FALSE, data |-> <<>>]
    /\ saved = [called |-> FALSE, list |-> <<>>]
    /\ quiz = [idx |-> 0, score |-> 0]
    /\ exitPath = [how |-> "", at |-> ""]
    /\ turns = 0
    /\ evals = <<>>

InitEval(inputs) ==
    /\ expr \in inputs
    /\ outcome = NoOutcome
    /\ pc = "call"
    /\ Idle

SafeEval ==
    /\ pc = "call"
    /\ outcome' = safe_eval_expr(expr)
    /\ pc' = "returned"
    /\ UNCHANGED <<user_input, expr, response, path, history, file, saved, quiz,
                   exitPath, turns, evals>>


InitDeny == InitEval(Lines(DenyKeys, MaxDenyKeys))
SpecDeny == InitDeny /\ [][SafeEval]_vars

\* operand (operator operand)*, each operand a digit, one of them also signed
ChainOps == {"+", "-", "*", "/", "//", "%", "**"}
Operands == {<<"2">>, <<"3">>, <<"-", "2">>}
RECURSIVE Chains(_)
Chains(n) ==
    IF n = 0 THEN Operands
    ELSE {c \o <<op>> \o x : c \in Chains(n - 1), op \in ChainOps, x \in Operands}
\* one operation in parentheses, as the left or the right operand of another
Grouped ==
    {<<"(">> \o c \o <<")", op>> \o x : c \in Chains(1), op \in ChainOps, x \in Operands}
    \cup {x \o <<op, "(">> \o c \o <<")">> : c \in Chains(1), op \in ChainOps, x \in Operands}
ChainLines(n) ==
    {Typed(ks) : ks \in UNION {Chains(k) : k \in 1..n} \cup Grouped}

InitArith == InitEval(Lines(ArithKeys, MaxArithKeys) \cup ChainLines(MaxChainOps))
SpecArith == InitArith /\ [][SafeEval]_vars

\* str(n), and the line "a//b"
RECURSIVE Decimal(_)
Decimal(n) ==
    IF n < 0 THEN <<"-">> \o Decimal(-n)
    ELSE IF n < 10 THEN <<DigitChars[n + 1]>>
    ELSE Decimal(n \div 10) \o <<DigitChars[(n % 10) + 1]>>
FloorRange == (-MaxFloor)..MaxFloor
FloorLine(a, b) == Decimal(a) \o <<"/", "/">> \o Decimal(b)

InitFloor == InitEval({FloorLine(a, b) : a \in FloorRange, b \in FloorRange})
SpecFloor == InitFloor /\ [][SafeEval]_vars

-----------------------------------------------------------------------------
(* A call of chatbot_response.                                             *)

MaxChatKeys == 3
ChatKeys == {"0", "2", "/", "//", "%", "-", "^", "(", ")", " "}
Prefixes == {<<>>, <<"c", "a", "l", "c", " ">>}
ChatLines(n) == {p \o b : p \in Prefixes, b \in Lines(ChatKeys, n)}

InitChat ==
    /\ user_input \in ChatLines(MaxChatKeys)
    /\ expr = <<>>
    /\ outcome = NoOutcome
    /\ response = Reply("", 0)
    /\ path = "none"
    /\ pc = "call"
    /\ history = <<>>
    /\ file = [exists |-> FALSE, data |-> <<>>]
    /\ saved = [called |-> FALSE, list |-> <<>>]
    /\ quiz = [idx |-> 0, score |-> 0]
    /\ exitPath = [how |-> "", at |-> ""]
    /\ turns = 0
    /\ evals = <<>>

Respond ==
    /\ pc = "call"
    /\ \E choice \in Choices : response' = chatbot_response(user_input, choice)
    /\ path' = Handed(user_input).path
    /\ expr' = Handed(user_input).expr
    /\ outcome' = IF path' = "none" THEN NoOutcome ELSE safe_eval_expr(expr')
    /\ pc' = "returned"
    /\ UNCHANGED <<user_input, history, file, saved, quiz, exitPath, turns, evals>>

SpecChat == InitChat /\ [][Respond]_vars

-----------------------------------------------------------------------------
(* main: the chat loop, its history and the history file.  The "time" of   *)
(* an entry is not modelled.                                               *)

MaxLines == 3

CmdHelp == <<"/", "h", "e", "l", "p">>
CmdHistory == <<"/", "h", "i", "s", "t", "o", "r", "y">>
CmdSave == <<"/", "s", "a", "v", "e">>
CmdLoad == <<"/", "l", "o", "a", "d">>
CmdClear == <<"/", "c", "l", "e", "a", "r">>
CmdQuiz == <<"/", "q", "u", "i", "z">>
CmdExit == <<"/", "e", "x", "i", "t">>
QUIZ_QUESTIONS ==
    <<<<"4">>,
      <<"p", "y", "t", "h", "o", "n">>,
      <<"a", "n", "y", " ", "n", "o", "n", "-", "l", "e", "a", "p", " ", "y", "e", "a", "r">>>>
SkipAnswer == <<"s", "k", "i", "p">>
QuizPrefix == <<"q", "u", "i", "z", " ", "q">>
LoopLines ==
    {<<>>,
     CmdHelp, CmdHistory, CmdSave, CmdLoad, CmdClear, CmdQuiz, CmdExit,
     <<"/", "x">>,
     <<"b", "y", "e">>,
     <<"c", "a", "l", "c", " ", "2", "/", "0">>,
     <<"2", "^", "2">>}
QuizAnswers ==
    {<<"s", "k", "i", "p">>,
     <<"4">>,
     <<"p", "y", "t", "h", "o", "n">>,
     <<"a", "n", "y", " ", "n", "o", "n", "-", "l", "e", "a", "p", " ", "y", "e", "a", "r">>}

UserEntry(text) == [sender |-> "user", text |-> text, reply |-> Reply("", 0)]
BotEntry(reply) == [sender |-> "bot", text |-> <<>>, reply |-> reply]

NoFile == [exists |-> FALSE, data |-> <<>>]
NotSaved == [called |-> FALSE, list |-> <<>>]
NoExit == [how |-> "", at |-> ""]
NoQuiz == [idx |-> 0, score |-> 0]

\* save_history(history): [ok, msg, file]; ok is whether open and json.dump succeed
save_history(h, ok, old) ==
    IF ok THEN [ok |-> TRUE, msg |-> Reply("Saved history to", 0),
                file |-> [exists |-> TRUE, data |-> h]]
    ELSE [ok |-> FALSE, msg |-> Reply("Failed to save history: ", 0), file |-> old]

\* load_history(): [ok, data, msg]; ok is whether open and json.load succeed
load_history(f, ok) ==
    IF ~f.exists THEN [ok |-> FALSE, data |-> <<>>, msg |-> Reply("No saved history found at", 0)]
    ELSE IF ok THEN [ok |-> TRUE, data |-> f.data, msg |-> Reply("", 0)]
    ELSE [ok |-> FALSE, data |-> <<>>, msg |-> Reply("Failed to load history: ", 0)]

InitLoop ==
    /\ user_input = <<>>
    /\ expr = <<>>
    /\ outcome = NoOutcome
    /\ response = Reply("", 0)
    /\ path = "none"
    /\ history = <<>>
    /\ file = NoFile
    /\ saved = NotSaved
    /\ pc = "input"
    /\ quiz = NoQuiz
    /\ exitPath = NoExit
    /\ turns = 0
    /\ evals = <<>>

IsCommand == pc = "recorded" /\ StartsAt(user_input, 1, <<"/">>)
cmd == lower(strip(user_input))
KnownCommands == {CmdHelp, CmdHistory, CmdSave, CmdLoad, CmdClear, CmdQuiz, CmdExit}

\* user_input = input("You: ").strip(); the user message is recorded; an empty
\* line is answered at once
ReadLine ==
    /\ pc = "input"
    /\ turns < MaxLines
    /\ \E line \in LoopLines :
        /\ user_input' = strip(line)
        /\ history' = Append(history, UserEntry(user_input'))
        /\ pc' = IF user_input' = <<>> THEN "input" ELSE "recorded"
    /\ turns' = turns + 1
    /\ UNCHANGED <<expr, outcome, response, path, file, saved, quiz, exitPath, evals>>

\* a command that only appends its text: /help, an unknown command
Answer(reply) ==
    /\ history' = Append(history, BotEntry(reply))
    /\ pc' = "input"
    /\ UNCHANGED <<user_input, expr, outcome, response, path, file, saved, quiz,
                   exitPath, turns, evals>>

HelpCommand == IsCommand /\ cmd = CmdHelp /\ Answer(Reply("help", 0))

UnknownCommand ==
    IsCommand /\ cmd \notin KnownCommands /\ Answer(Reply("Unknown command.", 0))

HistoryCommand ==
    /\ IsCommand /\ cmd = CmdHistory
    /\ pc' = "input"
    /\ UNCHANGED <<user_input, expr, outcome, response, path, history, file, saved,
                   quiz, exitPath, turns, evals>>

SaveCommand ==
    /\ IsCommand /\ cmd = CmdSave
    /\ \E ok \in BOOLEAN :
        LET s == save_history(history, ok, file)
        IN  /\ file' = s.file
            /\ history' = Append(history, BotEntry(s.msg))
    /\ pc' = "input"
    /\ UNCHANGED <<user_input, expr, outcome, response, path, saved, quiz, exitPath,
                   turns, evals>>

LoadCommand ==
    /\ IsCommand /\ cmd = CmdLoad
    /\ \E ok \in BOOLEAN :
        LET l == load_history(file, ok)
        IN  history' =
                IF l.ok
                THEN Append(history \o l.data,
                            BotEntry(Reply("Loaded and merged", Len(l.data))))
                ELSE Append(history, BotEntry(l.msg))
    /\ pc' = "input"
    /\ UNCHANGED <<user_input, expr, outcome, response, path, file, saved, quiz,
                   exitPath, turns, evals>>

ClearCommand ==
    /\ IsCommand /\ cmd = CmdClear
    /\ history' = <<BotEntry(Reply("In-memory history cleared.", 0))>>
    /\ pc' = "input"
    /\ UNCHANGED <<user_input, expr, outcome, response, path, file, saved, quiz,
                   exitPath, turns, evals>>

QuizCommand ==
    /\ IsCommand /\ cmd = CmdQuiz
    /\ history' = Append(history, BotEntry(Reply("Starting quiz.", 0)))
    /\ quiz' = [idx |-> 1, score |-> 0]
    /\ pc' = "quiz"
    /\ UNCHANGED <<user_input, expr, outcome, response, path, file, saved, exitPath,
                   turns, evals>>

\* run_quiz, one question: answer = input("Your answer: ").strip().lower()
QuizAnswer ==
    /\ pc = "quiz"
    /\ turns < MaxLines
    /\ \E answer \in QuizAnswers :
        LET right == answer # SkipAnswer /\ answer = lower(QUIZ_QUESTIONS[quiz.idx])
            score == IF right THEN quiz.score + 1 ELSE quiz.score
            said == UserEntry(QuizPrefix \o <<DigitChars[quiz.idx + 1], " ">> \o answer)
            told == BotEntry(Reply(IF answer = SkipAnswer THEN "Question skipped."
                                   ELSE IF right THEN "Correct!" ELSE "Answer: ",
                                   0))
            last == quiz.idx = Len(QUIZ_QUESTIONS)
        IN  /\ history' =
                IF last
                THEN history \o <<said, told, BotEntry(Reply("Quiz finished. Score: ", score))>>
                ELSE history \o <<said, told>>
            /\ quiz' = IF last THEN NoQuiz ELSE [idx |-> quiz.idx + 1, score |-> score]
            /\ pc' = IF last THEN "input" ELSE "quiz"
    /\ turns' = turns + 1
    /\ UNCHANGED <<user_input, expr, outcome, response, path, file, saved, exitPath,
                   evals>>

\* the loop is left: save_history(history) is called and nothing follows it
Leave(h, how) ==
    /\ \E ok \in BOOLEAN : file' = save_history(h, ok, file).file
    /\ saved' = [called |-> TRUE, list |-> h]
    /\ exitPath' = [how |-> how, at |-> pc]
    /\ pc' = "done"

\* /exit with save_history called before the goodbye is recorded
ExitSavesFirst ==
    /\ IsCommand /\ cmd = CmdExit
    /\ history' = Append(history, BotEntry(Reply("Goodbye!", 0)))
    /\ Leave(history, "/exit")
    /\ UNCHANGED <<user_input, expr, outcome, response, path, quiz, turns, evals>>

ExitCommand ==
    /\ IsCommand /\ cmd = CmdExit
    /\ history' = Append(history, BotEntry(Reply("Goodbye!", 0)))
    /\ Leave(history', "/exit")
    /\ UNCHANGED <<user_input, expr, outcome, response, path, quiz, turns, evals>>

\* what the reply shows of an evaluation: the expression handed to the
\* evaluator, the rule that handed it, and the reply's kind and value
Evaluation(h, reply) ==
    [expr |-> h.expr, path |-> h.path, kind |-> reply.kind, out |-> reply.out]

\* the non-command flow for the text said: response = chatbot_response(said),
\* recorded; a farewell word in the line leaves the loop
Turn(said) ==
    /\ pc = "recorded" /\ ~StartsAt(user_input, 1, <<"/">>)
    /\ \E choice \in Choices :
        response' = chatbot_response(said, choice)
    /\ path' = Handed(user_input).path
    /\ expr' = Handed(user_input).expr
    /\ outcome' = response'.out
    /\ evals' = IF path' = "none" THEN evals
                ELSE Append(evals, Evaluation(Handed(user_input), response'))
    /\ history' = Append(history, BotEntry(response'))
    /\ IF SearchWords(lower(user_input), FarewellWords)
       THEN Leave(history', "farewell")
       ELSE pc' = "input" /\ UNCHANGED <<file, saved, exitPath>>
    /\ UNCHANGED <<user_input, quiz, turns>>

\* a turn whose reply is computed from the first message still in the history
ChatTurnReadsHistory == Turn(history[1].text)

ChatTurn == Turn(user_input)

\* Ctrl+C, at a prompt or after the user message was recorded
KeyboardInterrupt ==
    /\ pc \in {"input", "recorded", "quiz"}
    /\ Leave(history, "KeyboardInterrupt")
    /\ UNCHANGED <<user_input, expr, outcome, response, path, history, quiz, turns,
                   evals>>

\* input() raises EOFError, at either prompt: except Exception
EndOfInput ==
    /\ pc \in {"input", "quiz"}
    /\ Leave(history, "Exception")
    /\ UNCHANGED <<user_input, expr, outcome, response, path, history, quiz, turns,
                   evals>>

NextLoop ==
    \/ ReadLine
    \/ HelpCommand
    \/ HistoryCommand
    \/ SaveCommand
    \/ LoadCommand
    \/ ClearCommand
    \/ QuizCommand
    \/ QuizAnswer
    \/ ExitCommand
    \/ UnknownCommand
    \/ ChatTurn
    \/ KeyboardInterrupt
    \/ EndOfInput

SpecLoop == InitLoop /\ [][NextLoop]_vars

-----------------------------------------------------------------------------
(* Properties of safe_eval_expr.                                           *)

RECURSIVE Nodes(_)
Nodes(node) == {node} \cup UNION {Nodes(node.kids[i]) : i \in DOMAIN node.kids}

\* the nodes the specification allows in an expression tree
NumericLiteral(node) == node.type = "Constant" /\ node.value.t \in {"int", "float"}
AllowedNode(node) ==
    \/ node.type = "Expression"
    \/ NumericLiteral(node)
    \/ node.type = "BinOp"
       /\ node.op \in {"Add", "Sub", "Mult", "Div", "FloorDiv", "Mod", "Pow"}
    \/ node.type = "UnaryOp" /\ node.op \in {"UAdd", "USub"}

Blank(s) == \A i \in DOMAIN s : s[i] = " "
Returned == pc = "returned"

\* C1: an input whose parsed tree holds a node other than a numeric literal, an
\* allowed binary operator or a unary + or - never evaluates to a value
C1_DefaultDeny ==
    Returned =>
        LET tree == ast_parse(strip(expr))
        IN  (~Blank(expr) /\ tree.ok /\ \E n \in Nodes(tree.node) : ~AllowedNode(n))
                => outcome.k # "ok"

\* C1, the part the code keeps: every such node except a bool constant is refused
C1_DenyButBool ==
    Returned =>
        LET tree == ast_parse(strip(expr))
        IN  (~Blank(expr) /\ tree.ok
             /\ \E n \in Nodes(tree.node) :
                    ~AllowedNode(n) /\ ~(n.type = "Constant" /\ n.value.t = "bool"))
                => outcome.k = "err" /\ outcome.e = "ValueError"

\* C3: an input with a constant leaf that is neither an int nor a float literal
\* (a bool, a string, None, a complex literal) never evaluates to a value
C3_NumericLeavesOnly ==
    Returned =>
        LET tree == ast_parse(strip(expr))
        IN  (~Blank(expr) /\ tree.ok
             /\ \E n \in Nodes(tree.node) :
                    n.type = "Constant" /\ n.value.t \notin {"int", "float"})
                => outcome.k # "ok"

\* C7: an empty or all-whitespace input fails with the empty-expression error,
\* not with the error of a parse
C7_EmptyExpression ==
    (Returned /\ Blank(expr)) => outcome = Raise("ValueError", "Empty expression")

C7_Witness ==
    Returned /\ expr = <<" ", " ">> /\ outcome = Raise("ValueError", "Empty expression")

\* C8: for integers a and b # 0 the line "a//b" evaluates to the int q with
\* q*b <= a < (q+1)*b when b > 0 and q*b >= a > (q+1)*b when b < 0
C8_FloorDivision ==
    Returned =>
        \A a \in FloorRange, b \in FloorRange \ {0} :
            expr = FloorLine(a, b) =>
                /\ outcome.k = "ok"
                /\ outcome.v.t = "int"
                /\ LET q == outcome.v.n
                   IN  IF b > 0 THEN q * b <= a /\ a < (q + 1) * b
                       ELSE q * b >= a /\ a > (q + 1) * b

C8_Witness ==
    Returned /\ expr = <<"-", "7", "/", "/", "2">> /\ outcome = Ok(IntV(-4))


-----------------------------------------------------------------------------
(* The grammar of arithmetic strings, evaluated while it is read.  A       *)
(* result is [ok, out, pos]: out is the value or the error of the part     *)
(* read, operands evaluated left to right.                                 *)
(*   "spec":     expr   := term (('+'|'-') term)*                          *)
(*               term   := factor (('*'|'/'|'//'|'%') factor)*             *)
(*               factor := unary ('**' unary)*        right-associative    *)
(*               unary  := ('+'|'-') unary | atom                          *)
(*               atom   := NUMBER | '(' expr ')'                           *)
(*   "amended":  term   := unary (('*'|'/'|'//'|'%') unary)*               *)
(*               unary  := ('+'|'-') unary | power                         *)
(*               power  := atom ['**' unary]                               *)

Read(out, pos) == [ok |-> TRUE, out |-> out, pos |-> pos]
NoRead == [ok |-> FALSE, out |-> NoOutcome, pos |-> 0]
Both(op, l, r) ==
    IF l.k # "ok" THEN l ELSE IF r.k # "ok" THEN r ELSE ApplyBinary(op, l.v, r.v)
Signed(sym, x) == IF x.k # "ok" THEN x ELSE ApplyUnary(UnaryOpClass(sym), x.v)

RECURSIVE GExpr(_, _, _)
RECURSIVE GExprRest(_, _, _, _)
RECURSIVE GTerm(_, _, _)
RECURSIVE GTermRest(_, _, _, _)
RECURSIVE GOperand(_, _, _)
RECURSIVE GSpecUnary(_, _)
RECURSIVE GAmendedUnary(_, _)
RECURSIVE GAtom(_, _, _)

GAtom(g, toks, i) ==
    LET tok == TokAt(toks, i)
    IN  IF tok.k = "NUMBER" /\ tok.v.t = "int" THEN Read(Checked(tok.v), i + 1)
        ELSE IF IsOp(tok, {"("})
        THEN LET e == GExpr(g, toks, i + 1)
             IN  IF e.ok /\ IsOp(TokAt(toks, e.pos), {")"}) THEN Read(e.out, e.pos + 1)
                 ELSE NoRead
        ELSE NoRead

\* "spec": unary := ('+'|'-') unary | atom
GSpecUnary(toks, i) ==
    LET tok == TokAt(toks, i)
    IN  IF IsOp(tok, {"+", "-"})
        THEN LET u == GSpecUnary(toks, i + 1)
             IN  IF u.ok THEN Read(Signed(tok.s, u.out), u.pos) ELSE NoRead
        ELSE GAtom("spec", toks, i)

\* "amended": unary := ('+'|'-') unary | power; power := atom ['**' unary]
GAmendedUnary(toks, i) ==
    LET tok == TokAt(toks, i)
    IN  IF IsOp(tok, {"+", "-"})
        THEN LET u == GAmendedUnary(toks, i + 1)
             IN  IF u.ok THEN Read(Signed(tok.s, u.out), u.pos) ELSE NoRead
        ELSE LET a == GAtom("amended", toks, i)
             IN  IF a.ok /\ IsOp(TokAt(toks, a.pos), {"**"})
                 THEN LET x == GAmendedUnary(toks, a.pos + 1)
                      IN  IF x.ok THEN Read(Both("Pow", a.out, x.out), x.pos) ELSE NoRead
                 ELSE a

\* the operand of a term: "spec" factor := unary ('**' unary)*, grouped to the right
GOperand(g, toks, i) ==
    IF g = "amended" THEN GAmendedUnary(toks, i)
    ELSE LET u == GSpecUnary(toks, i)
         IN  IF u.ok /\ IsOp(TokAt(toks, u.pos), {"**"})
             THEN LET x == GOperand(g, toks, u.pos + 1)
                  IN  IF x.ok THEN Read(Both("Pow", u.out, x.out), x.pos) ELSE NoRead
             ELSE u

GTerm(g, toks, i) ==
    LET f == GOperand(g, toks, i)
    IN  IF f.ok THEN GTermRest(g, toks, f.out, f.pos) ELSE NoRead
GTermRest(g, toks, left, i) ==
    LET tok == TokAt(toks, i)
    IN  IF IsOp(tok, {"*", "/", "//", "%"})
        THEN LET f == GOperand(g, toks, i + 1)
             IN  IF f.ok THEN GTermRest(g, toks, Both(BinOpClass(tok.s), left, f.out), f.pos)
                 ELSE NoRead
        ELSE Read(left, i)

GExpr(g, toks, i) ==
    LET t == GTerm(g, toks, i)
    IN  IF t.ok THEN GExprRest(g, toks, t.out, t.pos) ELSE NoRead
GExprRest(g, toks, left, i) ==
    LET tok == TokAt(toks, i)
    IN  IF IsOp(tok, {"+", "-"})
        THEN LET t == GTerm(g, toks, i + 1)
             IN  IF t.ok THEN GExprRest(g, toks, Both(BinOpClass(tok.s), left, t.out), t.pos)
                 ELSE NoRead
        ELSE Read(left, i)

\* the whole string read by grammar g: [ok, out]
Grammar(g, s) ==
    LET t == Tokenize(s, 1)
        e == IF t.ok THEN GExpr(g, t.toks, 1) ELSE NoRead
    IN  [ok |-> e.ok /\ e.pos = Len(t.toks) + 1, out |-> e.out]

Agrees(g) ==
    Returned =>
        LET r == Grammar(g, expr)
        IN  (r.ok /\ r.out.k # "untracked" /\ outcome.k # "untracked") => outcome = r.out

-----------------------------------------------------------------------------
(* Properties of chatbot_response.                                         *)

HandedOver == Returned /\ path \in {"calc", "bare"}

\* some /, // or % of the tree has a right operand that evaluates to zero
ZeroDivisor(node) ==
    \E n \in Nodes(node) :
        /\ n.type = "BinOp"
        /\ n.op \in {"Div", "FloorDiv", "Mod"}
        /\ LET right == _eval(n.kids[2]) IN right.k = "ok" /\ right.v.n = 0

\* C4: an expression with a zero divisor returns no number; when all its nodes
\* are arithmetic the error is the division-by-zero error; through the calc
\* prefix the reply is the error text, and on no path a "Result:" line
C4_DivisionByZero ==
    HandedOver =>
        LET tree == ast_parse(strip(expr))
        IN  (tree.ok /\ ZeroDivisor(tree.node) /\ outcome.k # "untracked") =>
                /\ outcome.k = "err"
                /\ (\A n \in Nodes(tree.node) : AllowedNode(n))
                       => outcome.e = "ZeroDivisionError"
                /\ response.kind # "Result: "
                /\ path = "calc" =>
                       response.kind = "Calculator error: " /\ response.out = outcome

C4_Witness ==
    /\ Returned
    /\ user_input = <<"c", "a", "l", "c", " ", "2", "/", "0">>
    /\ outcome = Raise("ZeroDivisionError", "division by zero")
    /\ response.kind = "Calculator error: "

\* C5 as stated: whatever is handed to the evaluator, by the calc rule or as a
\* bare line, is answered "Calculator error: <message>" on failure and
\* "Result: <value>" on success
C5_ErrorsSurfaced ==
    (HandedOver /\ outcome.k # "untracked") =>
        /\ response.out = outcome
        /\ response.kind = IF outcome.k = "err" THEN "Calculator error: " ELSE "Result: "

\* C5, the part the code keeps: a calc command is answered "Calculator error:
\* <message>" on failure and "Result: <value>" on success; a bare line is
\* answered "Result: <value>" on success, and on failure by the rules after
\* the calculator, with no calculator reply
C5_CalcErrorsSurfaced ==
    (HandedOver /\ outcome.k # "untracked") =>
        IF path = "calc" \/ outcome.k = "ok"
        THEN /\ response.out = outcome
             /\ response.kind = IF outcome.k = "err" THEN "Calculator error: "
                                ELSE "Result: "
        ELSE /\ response.kind \notin {"Result: ", "Calculator error: "}
             /\ response.kind = RulesAfter(lower(strip(user_input)))

\* C6: on both paths to the evaluator each ^ is read as **: the reply to a line
\* is the reply to the same line written with ** for ^
C6_CaretNormalized ==
    HandedOver => response = chatbot_response(replace_caret(user_input), response.arg)


-----------------------------------------------------------------------------
(* Properties of main.                                                     *)

Last(h) == h[Len(h)]
Left == pc = "done"

====
